---- MODULE Spec2Model ----
(***************************************************************************)
(* A model of the word-cloud series of amcharts4                           *)
(* (src/.internal/plugins/wordCloud/WordCloudSeries.ts):                   *)
(*   - the layout engine: validate(), processItem() and the process timer; *)
(*   - the text pipeline: getWords() and the property setters that call    *)
(*     updateData().                                                       *)
(* Lengths are in pixels.  Font sizes and the font scale are rationals in  *)
(* the code; here a font size is a pair numerator/denominator and the      *)
(* scale _adjustedFont is kept in tenths (10 = 1.0, 9 = 0.9, ...).         *)
(***************************************************************************)
EXTENDS Integers, Sequences, FiniteSets, TLC

VARIABLES
    cfg,            \* the series' properties and canvas size (fixed after construction)
    dataItems,      \* this.dataItems.values: sequence of [len, value, ink]
    adjustedFont10, \* this._adjustedFont, in tenths
    currentIndex,   \* this._currentIndex
    raster,         \* the off-screen canvas: the set of pixels <<x, y>> painted blue
    points,         \* this._points: the spiral candidates left
    timers,         \* the pending setTimeout callbacks, each [pass, at]
    processTimeout, \* this._processTimeout: the disposer of the timer scheduled last
    invalid,        \* the series is invalidated and will be validated on the next frame
    invalidations,  \* number of external invalidations so far
    pass,           \* number of validate() calls so far
    placed,         \* the words stamped in the current pass, in order
    last,           \* what the last processItem call did
    disposed,       \* the last validate() disposed a timer that was still pending
    prevPlaced,     \* number of words placed by the pass just abandoned, -1 if none was
    text,           \* property "text": a sequence of characters, <<>> when unset or ""
    data,           \* this.data: [defined, rows], rows a sequence of [word, value]
    minValue,       \* property "minValue"
    minWordLength,  \* property "minWordLength"
    excludeWords,   \* property "excludeWords"
    maxCount,       \* property "maxCount"
    stages,         \* the intermediate word lists of the last getWords() call
    dateOne,        \* a Date object: its time value, as [day, ms]
    dateTwo,        \* a second Date object
    tz,             \* offset of local time from UTC, in minutes
    timeCall        \* the last call of a function of Time.ts and what it returned

layoutVars == <<cfg, dataItems, adjustedFont10, currentIndex, raster, points, timers,
                processTimeout, invalid, invalidations, pass, placed, last, disposed,
                prevPlaced>>
wordVars == <<text, data, minValue, minWordLength, excludeWords, maxCount, stages>>
timeVars == <<dateOne, dateTwo, tz, timeCall>>
vars == <<layoutVars, wordVars, timeVars>>

(***************************************************************************)
(* Bounds of the model.                                                    *)
(***************************************************************************)
MaxShrinks == 12        \* passes are started while fewer than this many shrinks happened
MaxInvalidations == 1   \* external invalidations (resize, property change)
MaxDays == 75           \* days after BaseDay of the dates drawn
MaxTextLen == 5         \* characters of the source text

(***************************************************************************)
(* Arithmetic helpers.                                                     *)
(***************************************************************************)
Abs(n) == IF n < 0 THEN -n ELSE n
Min2(a, b) == IF a < b THEN a ELSE b
Max2(a, b) == IF a > b THEN a ELSE b
\* ceiling of n / d, d > 0
Ceil(n, d) == -((-n) \div d)
RECURSIVE Pow2(_)
Pow2(n) == IF n = 0 THEN 1 ELSE 2 * Pow2(n - 1)

NoTimer == [pass |-> 0, at |-> 0]

(***************************************************************************)
(* The off-screen raster.  validate() paints it white; processItem paints  *)
(* glyphs in blue.  A pixel outside the canvas reads as transparent black. *)
(***************************************************************************)
White == 255
\* one entry of ImageData.data: channel c (0 = R, 1 = G, 2 = B, 3 = A) of pixel <<px, py>>
Channel(ras, w, h, px, py, c) ==
    IF px < 0 \/ px >= w \/ py < 0 \/ py >= h THEN 0
    ELSE IF <<px, py>> \in ras THEN (IF c >= 2 THEN 255 ELSE 0)
    ELSE 255

\* entry i of getImageData(rect.x, rect.y, rect.width, rect.height).data
PixelEntry(ras, w, h, rect, i) ==
    LET pix == i \div 4
    IN  Channel(ras, w, h, rect.x + (pix % rect.width), rect.y + (pix \div rect.width), i % 4)

\* the loop over pixel[i], i += 2^accuracy: some sampled entry is not 255
IntersectsFirstEntry(ras, w, h, rect, accuracy) ==
    PixelEntry(ras, w, h, rect, 0) # White
Intersects(ras, w, h, rect, accuracy) ==
    LET n == rect.width * rect.height * 4
        stride == Pow2(accuracy)
    IN  \E k \in 0..((n - 1) \div stride) :
            PixelEntry(ras, w, h, rect, k * stride) # White

(***************************************************************************)
(* Font size of a data item.                                               *)
(***************************************************************************)
Values(items) == {items[k].value : k \in DOMAIN items}
Low(items) == CHOOSE v \in Values(items) : \A u \in Values(items) : v <= u
High(items) == CHOOSE v \in Values(items) : \A u \in Values(items) : v >= u

\* percent = (dataItem.value - low) / high, as numerator and denominator
PercentNum(items, item) == item.value - Low(items)
PercentDen(items) == High(items)

\* fontSize = minFontSize + (maxFontSize - minFontSize) * percent * _adjustedFont
FontDen(items) == 10 * PercentDen(items)
FontNum(c, items, item, adj10) ==
    c.minFontSize * FontDen(items)
        + (c.maxFontSize - c.minFontSize) * PercentNum(items, item) * adj10

\* (fontSize - minFontSize) / (maxFontSize - minFontSize) < rotationThreshold
\* (the threshold is in tenths; 0 / 0 is NaN, which is below nothing)
BelowThreshold(c, items, item, adj10) ==
    LET d == c.maxFontSize - c.minFontSize
        num == FontNum(c, items, item, adj10) - c.minFontSize * FontDen(items)
        den == d * FontDen(items)
    IN  IF d = 0 THEN FALSE
        ELSE IF den > 0 THEN 10 * num < c.rotationThreshold10 * den
        ELSE 10 * num > c.rotationThreshold10 * den

\* angle = this.angles[Math.round(Math.random() * (this.angles.length - 1))]
AngleChoices(c, items, item, adj10) ==
    IF BelowThreshold(c, items, item, adj10)
    THEN {c.angles[k] : k \in DOMAIN c.angles}
    ELSE {0}

\* p = Math.round(Math.random() * this._points.length * this.randomness), Math.random() in [0, 1)
\* (randomness is kept in hundredths; k is drawn when k - 0.5 <= x for some x < n * randomness)
StartOffsetsAnywhere(c, n) == 0..n
StartOffsets(c, n) ==
    {k \in 0..n : k = 0 \/ 100 * k - 50 < n * c.randomness100}

(***************************************************************************)
(* The label's measured bounds (maxLeft, maxRight, maxTop, maxBottom) for  *)
(* a text of len characters at font size num / den, centred on its         *)
(* position, rotated by angle.                                             *)
(***************************************************************************)
Measure(len, num, den, angle) ==
    LET tw == Ceil(len * num, 2 * den)
        th == Ceil(num, den)
        bw == IF Abs(angle) = 90 THEN th ELSE tw
        bh == IF Abs(angle) = 90 THEN tw ELSE th
    IN  [maxL |-> -(bw \div 2), maxR |-> bw - (bw \div 2),
         maxT |-> -(bh \div 2), maxB |-> bh - (bh \div 2)]

\* rect1 shifted to canvas coordinates: the margin-extended bounding box at site
Rect1(c, m, site) ==
    [x |-> site[1] + m.maxL - c.marginLeft + c.w \div 2,
     y |-> site[2] + m.maxT - c.marginTop + c.h \div 2,
     width |-> m.maxR - m.maxL + c.marginLeft + c.marginRight,
     height |-> m.maxB - m.maxT + c.marginTop + c.marginBottom]

\* the bounding box of the glyphs at site, in canvas coordinates
GlyphBox(c, m, site) ==
    [x |-> site[1] + m.maxL + c.w \div 2,
     y |-> site[2] + m.maxT + c.h \div 2,
     width |-> m.maxR - m.maxL,
     height |-> m.maxB - m.maxT]

BoxPixels(b) ==
    {<<px, py>> \in (b.x..(b.x + b.width - 1)) \X (b.y..(b.y + b.height - 1)) : TRUE}

\* the pixels context.fillText paints: all of the glyph box for a "solid"
\* text, only its baseline for a "bottom" text; painting is clipped to the canvas
FillText(c, item, m, site, angle) ==
    LET b == GlyphBox(c, m, site)
        ink == IF item.ink = "solid" THEN BoxPixels(b)
               ELSE IF Abs(angle) = 90
                    THEN {q \in BoxPixels(b) : q[1] = b.x}
                    ELSE {q \in BoxPixels(b) : q[2] = b.y + b.height - 1}
    IN  {q \in ink : q[1] >= 0 /\ q[1] < c.w /\ q[2] >= 0 /\ q[2] < c.h}

(***************************************************************************)
(* The spiral of candidate centres, relative to the centre of the canvas:  *)
(* a walk outwards from the centre in rings step apart.                    *)
(***************************************************************************)
Ring(k, step) ==
    [n \in 1..(8 * k) |->
        IF n <= 2 * k + 1 THEN <<(n - 1 - k) * step, -k * step>>
        ELSE IF n <= 4 * k + 1 THEN <<k * step, (n - (2 * k + 1) - k) * step>>
        ELSE IF n <= 6 * k + 1 THEN <<(k - (n - (4 * k + 1))) * step, k * step>>
        ELSE <<-k * step, (k - (n - (6 * k + 1))) * step>>]

RECURSIVE Rings(_, _, _)
Rings(k, last_k, step) ==
    IF k > last_k THEN <<>> ELSE Ring(k, step) \o Rings(k + 1, last_k, step)

SpiralPoints(w, h, step) == <<<<0, 0>>>> \o Rings(1, Max2(w, h) \div step + 1, step)

\* validate() drops the points outside the canvas
InCanvas(w, h, pt) ==
    ~(2 * pt[1] < -w \/ 2 * pt[1] > w \/ 2 * pt[2] < -h \/ 2 * pt[2] > h)
CanvasPoints(w, h, step) ==
    SelectSeq(SpiralPoints(w, h, step), LAMBDA pt : InCanvas(w, h, pt))

\* this.dataItems.values.sort(...): descending by value, equal values keep their order
RECURSIVE InsertByValue(_, _)
InsertByValue(sorted, item) ==
    IF sorted = <<>> THEN <<item>>
    ELSE IF sorted[Len(sorted)].value >= item.value THEN Append(sorted, item)
    ELSE Append(InsertByValue(SubSeq(sorted, 1, Len(sorted) - 1), item), sorted[Len(sorted)])
RECURSIVE SortByValue(_)
SortByValue(items) ==
    IF items = <<>> THEN <<>>
    ELSE InsertByValue(SortByValue(SubSeq(items, 1, Len(items) - 1)), items[Len(items)])

(***************************************************************************)
(* processItem: the search along the spiral.                               *)
(***************************************************************************)
TextLimit == 3       \* label.currentText.length > 3
NarrowWidth == 60    \* maxR - maxL < 60
NarrowHeight == 50   \* maxB - maxT < 50
PointStride == 5     \* p += 5
ShrinkStep == 1      \* this._adjustedFont -= 0.1, in tenths

RemoveAt(seq, k) == SubSeq(seq, 1, k - 1) \o SubSeq(seq, k + 1, Len(seq))

\* this._points.splice(p, 1) after a collision of a short word
Splices(item, m, angle) ==
    /\ item.len > TextLimit
    /\ \/ angle = 0 /\ m.maxR - m.maxL < NarrowWidth
       \/ Abs(angle) = 90 /\ m.maxB - m.maxT < NarrowHeight

\* the while (intersects) loop, from candidate p (0-based)
RECURSIVE Search(_, _, _, _, _, _, _, _)
Search(c, ras, pts, item, m, angle, p, tested) ==
    IF p > Len(pts) - 1
    THEN [found |-> FALSE, pts |-> pts, site |-> <<0, 0>>, tested |-> tested]
    ELSE CHOOSE res \in
           { IF Intersects(ras, c.w, c.h, rect, c.accuracy)
             THEN Search(c, ras, rest, item, m, angle, p + PointStride, seen)
             ELSE [found |-> TRUE, pts |-> pts, site |-> pts[p + 1], tested |-> seen] :
               rect \in {Rect1(c, m, pts[p + 1])},
               rest \in {IF Splices(item, m, angle) THEN RemoveAt(pts, p + 1) ELSE pts},
               seen \in {Append(tested, [p |-> p, site |-> pts[p + 1]])} } : TRUE

\* a timer for the next word is set: this._currentIndex < this.dataItems.length - 1
NeedsTimerOneMore(idx, n) == idx < n
NeedsTimerOneLess(idx, n) == idx < n - 2
NeedsTimer(idx, n) == idx < n - 1

\* this._processTimeout.dispose()
DisposeNothing(ts, t) == ts
DisposeTimeout(ts, t) == ts \ {t}

\* context.fillRect(0, 0, w, h) in white
KeepRaster(ras) == ras
ClearRaster(ras) == {}

\* What processItem(items[idx]) does on raster ras and points pts at scale adj10,
\* the angle and the start offset drawn as given.
ProcessItem(c, items, idx, adj10, ras, pts, angle, p0) ==
    LET item == items[idx + 1]
        num == FontNum(c, items, item, adj10)
        den == FontDen(items)
    IN  LET m == Measure(item.len, num, den, angle)
        IN  LET r == Search(c, ras, pts, item, m, angle, p0, <<>>)
            IN  [found |-> r.found, pts |-> r.pts, site |-> r.site, tested |-> r.tested,
                 rect |-> Rect1(c, m, r.site), box |-> GlyphBox(c, m, r.site),
                 ink |-> IF r.found THEN FillText(c, item, m, r.site, angle) ELSE {},
                 idx |-> idx, angle |-> angle, start |-> p0, npoints |-> Len(pts),
                 below |-> BelowThreshold(c, items, item, adj10),
                 adj10 |-> adj10, fontNum |-> num, fontDen |-> den]

\* the record of a call in the variable last
CallInfo(r, o) ==
    [outcome |-> o, idx |-> r.idx, angle |-> r.angle, start |-> r.start,
     tested |-> r.tested, npoints |-> r.npoints, below |-> r.below,
     fontNum |-> r.fontNum, fontDen |-> r.fontDen]

\* the record of a placed word in the variable placed
Placement(r) ==
    [idx |-> r.idx, site |-> r.site, angle |-> r.angle, rect |-> r.rect, box |-> r.box,
     ink |-> r.ink, adj10 |-> r.adj10, fontNum |-> r.fontNum, fontDen |-> r.fontDen]

\* The effect of a processItem call with result r, made in pass number ps on
\* raster ras with pending timers ts, placed words pl and validity inv.
Commit(r, n, ps, ras, ts, pl, inv, prev) ==
    /\ currentIndex' = r.idx
    /\ points' = r.pts
    /\ IF r.found
       THEN /\ raster' = ras \cup r.ink
            /\ placed' = Append(pl, Placement(r))
            /\ adjustedFont10' = adjustedFont10
            /\ invalid' = inv
            /\ prevPlaced' = prev
            /\ last' = CallInfo(r, "placed")
            /\ IF NeedsTimer(r.idx, n)
               THEN /\ timers' = ts \cup {[pass |-> ps, at |-> r.idx]}
                    /\ processTimeout' = [pass |-> ps, at |-> r.idx]
               ELSE /\ timers' = ts
                    /\ processTimeout' = processTimeout
       ELSE /\ raster' = ras
            /\ placed' = pl
            /\ adjustedFont10' = adjustedFont10 - ShrinkStep
            /\ invalid' = TRUE
            /\ prevPlaced' = Len(pl)
            /\ last' = CallInfo(r, "exhausted")
            /\ timers' = ts
            /\ processTimeout' = processTimeout

(***************************************************************************)
(* The series after construction and configuration.                        *)
(***************************************************************************)
Word(len, value, ink) == [len |-> len, value |-> value, ink |-> ink]

\* word lists in which every word fits the canvas at minFontSize
WordLists ==
    { <<Word(2, 3, "solid"), Word(2, 2, "bottom"), Word(1, 1, "solid")>>,
      <<Word(1, 1, "solid"), Word(4, 3, "bottom"), Word(2, 3, "solid")>>,
      <<Word(4, 2, "bottom"), Word(4, 2, "solid"), Word(4, 2, "solid")>> }

\* a word list whose last word is wider than the canvas at minFontSize
LongWordList == <<Word(2, 2, "solid"), Word(18, 1, "solid")>>

Config(cv, ws, th, an, rn, ac, mg) ==
    [w |-> cv[1], h |-> cv[2], step |-> 1, words |-> ws,
     minFontSize |-> 1, maxFontSize |-> 3,
     rotationThreshold10 |-> th, angles |-> an, randomness100 |-> rn, accuracy |-> ac,
     marginLeft |-> mg, marginRight |-> mg, marginTop |-> 0, marginBottom |-> 0]

\* a series on a small canvas, and the series obtained by changing one setting
Configs ==
    { Config(<<8, 4>>, ws, 7, <<0, 0, 90>>, 0, 3, 1) : ws \in WordLists }
    \cup { Config(<<8, 4>>, ws, 7, <<90>>, 0, 3, 1) : ws \in WordLists }
    \cup { Config(<<8, 4>>, ws, 7, <<0, 0, 90>>, 0, 2, 1) : ws \in WordLists }
    \cup { Config(<<8, 4>>, ws, 7, <<0, 0, 90>>, 0, 3, 0) : ws \in WordLists }
    \cup { Config(<<8, 4>>, LongWordList, th, <<0, 0, 90>>, 0, 3, 1) : th \in {0, 7} }
    \cup { Config(<<8, 4>>, LongWordList, 7, <<0>>, 4, 3, 1) }
    \cup { Config(<<0, 0>>, LongWordList, 7, <<0, 0, 90>>, 0, 3, 1) }

NoCall == [outcome |-> "none", idx |-> 0, angle |-> 0, start |-> 0, tested |-> <<>>,
           npoints |-> 0, below |-> FALSE, fontNum |-> 0, fontDen |-> 1]

\* the value of a numeric property that was never set
Undefined == -1

\* this.data when it holds undefined, and when it holds an array
NoData == [defined |-> FALSE, rows |-> <<>>]
DataOf(rows) == [defined |-> TRUE, rows |-> rows]

\* no getWords() call has extracted words yet
NoStages == [ran |-> FALSE, tokens |-> <<>>, counted |-> <<>>, filtered |-> <<>>,
             sorted |-> <<>>, returned |-> <<>>]

InitLayout ==
    /\ cfg \in Configs
    /\ dataItems = cfg.words
    /\ adjustedFont10 = 10
    /\ currentIndex = 0
    /\ raster = {}
    /\ points = <<>>
    /\ timers = {}
    /\ processTimeout = NoTimer
    /\ invalid = TRUE
    /\ invalidations = 0
    /\ pass = 0
    /\ placed = <<>>
    /\ last = NoCall
    /\ prevPlaced = -1
    /\ disposed = FALSE

InitWordsIdle ==
    /\ text = <<>>
    /\ data = DataOf(<<>>)
    /\ minValue = Undefined
    /\ minWordLength = 1
    /\ excludeWords = <<>>
    /\ maxCount = Undefined
    /\ stages = NoStages

\* no function of Time.ts was called yet
Epoch == [day |-> 0, ms |-> 0]
NoTimeCall == [fn |-> "none", unit |-> "none", count |-> 0, firstDateOfWeek |-> 0,
               input |-> Epoch, result |-> Epoch, changed |-> FALSE]

InitTimeIdle ==
    /\ dateOne = Epoch
    /\ dateTwo = Epoch
    /\ tz = 0
    /\ timeCall = NoTimeCall

Init == InitLayout /\ InitWordsIdle /\ InitTimeIdle

(***************************************************************************)
(* validate(): sort the data items, dispose the pending timer, clear the   *)
(* raster, regenerate the spiral and process the first word.               *)
(***************************************************************************)
Validate ==
    /\ invalid
    /\ 10 - adjustedFont10 < MaxShrinks
    /\ pass' = pass + 1
    /\ disposed' = (processTimeout \in timers)
    /\ cfg' = cfg
    /\ invalidations' = invalidations
    /\ \E sorted \in {SortByValue(dataItems)}, pts \in {CanvasPoints(cfg.w, cfg.h, cfg.step)},
          ts \in {DisposeTimeout(timers, processTimeout)} :
          /\ dataItems' = sorted
          /\ IF cfg.w > 0 /\ cfg.h > 0
             THEN \E angle \in AngleChoices(cfg, sorted, sorted[1], adjustedFont10),
                     p0 \in StartOffsets(cfg, Len(pts)) :
                     \E r \in {ProcessItem(cfg, sorted, 0, adjustedFont10,
                                           ClearRaster(raster), pts, angle, p0)} :
                        Commit(r, Len(sorted), pass + 1, ClearRaster(raster), ts, <<>>, FALSE,
                               IF last.outcome = "exhausted" THEN prevPlaced ELSE -1)
             ELSE /\ currentIndex' = 0
                  /\ timers' = ts
                  /\ invalid' = FALSE
                  /\ last' = NoCall
                  /\ UNCHANGED <<raster, points, processTimeout, adjustedFont10, placed,
                                 prevPlaced>>
    /\ UNCHANGED <<wordVars, timeVars>>

(***************************************************************************)
(* The timer callback: this._currentIndex++, then processItem.             *)
(***************************************************************************)
TimerFire(t) ==
    /\ t \in timers
    /\ pass' = pass
    /\ UNCHANGED <<cfg, dataItems, invalidations, disposed>>
    /\ IF currentIndex + 1 < Len(dataItems)
       THEN \E angle \in AngleChoices(cfg, dataItems, dataItems[currentIndex + 2],
                                      adjustedFont10),
               p0 \in StartOffsets(cfg, Len(points)) :
               \E r \in {ProcessItem(cfg, dataItems, currentIndex + 1, adjustedFont10,
                                     raster, points, angle, p0)} :
                  Commit(r, Len(dataItems), pass, raster, timers \ {t}, placed, invalid,
                         prevPlaced)
       ELSE /\ currentIndex' = currentIndex + 1
            /\ timers' = timers \ {t}
            /\ UNCHANGED <<raster, points, processTimeout, adjustedFont10, placed,
                           prevPlaced, invalid, last>>
    /\ UNCHANGED <<wordVars, timeVars>>

\* an invalidation from outside (a resize, a property change)
Invalidate ==
    /\ ~invalid
    /\ invalidations < MaxInvalidations
    /\ invalid' = TRUE
    /\ invalidations' = invalidations + 1
    /\ UNCHANGED <<cfg, dataItems, adjustedFont10, currentIndex, raster, points, timers,
                   processTimeout, pass, placed, last, prevPlaced, disposed>>
    /\ UNCHANGED <<wordVars, timeVars>>

Next ==
    \/ Validate
    \/ \E t \in timers : TimerFire(t)
    \/ Invalidate

Spec == Init /\ [][Next]_vars

\* the same without invalidations from outside, timers and validation being run
NextLive ==
    \/ Validate
    \/ \E t \in timers : TimerFire(t)

LiveSpec ==
    Init /\ [][NextLive]_vars /\ WF_vars(Validate) /\ WF_vars(\E t \in timers : TimerFire(t))

(***************************************************************************)
(* Vocabulary of the properties.                                           *)
(***************************************************************************)
PositiveCanvas == cfg.w > 0 /\ cfg.h > 0
ValidateStep == pass' = pass + 1
\* a timer callback ran
TimerStep == pass' = pass /\ timers \ timers' # {}
\* the step called processItem
ProcessStep ==
    \/ ValidateStep /\ PositiveCanvas
    \/ TimerStep /\ currentIndex' < Len(dataItems)
PlacedStep == ProcessStep /\ last'.outcome = "placed"
ExhaustedStep == ProcessStep /\ last'.outcome = "exhausted"

\* the pixels of rect of which the test reads an entry (every 2^accuracy-th entry)
SampledPixels(rect, accuracy) ==
    LET n == rect.width * rect.height * 4
        entries == {i \in 0..(n - 1) : i % Pow2(accuracy) = 0}
    IN  {<<rect.x + ((i \div 4) % rect.width), rect.y + ((i \div 4) \div rect.width)>> :
            i \in entries}
OnCanvas(q) == q[1] >= 0 /\ q[1] < cfg.w /\ q[2] >= 0 /\ q[2] < cfg.h

\* every data item was placed in the current pass and nothing is pending
LayoutComplete ==
    /\ ~invalid
    /\ timers = {}
    /\ Len(placed) = Len(dataItems)
    /\ currentIndex = Len(dataItems) - 1
    /\ last.outcome = "placed"

(***************************************************************************)
(* C1.  A word is stamped at a site only if every sampled pixel            *)
(* of its margin-extended bounding box there is background: the raster     *)
(* holds exactly the glyphs of the words placed in the current pass, and   *)
(* every sampled pixel of a placed word's box lies on the canvas and was   *)
(* painted by no word placed before it.  (The bounding boxes themselves    *)
(* may overlap where the earlier glyphs left the pixel background.)        *)
(***************************************************************************)
C1_SampledPixelsWereBackground ==
    /\ raster = UNION {placed[k].ink : k \in DOMAIN placed}
    /\ \A m \in DOMAIN placed :
         \A q \in SampledPixels(placed[m].rect, cfg.accuracy) :
            /\ OnCanvas(q)
            /\ \A k \in 1..(m - 1) : q \notin placed[k].ink

\* two words of the pass whose boxes overlap
C1_Witness ==
    \E m \in DOMAIN placed : \E k \in 1..(m - 1) :
        BoxPixels(placed[m].rect) \cap BoxPixels(placed[k].box) # {}

\* C1 as stated: moreover no sampled pixel of a placed word's box lies in the
\* bounding box of a word placed before it
C1_Original ==
    /\ C1_SampledPixelsWereBackground
    /\ \A m \in DOMAIN placed : \A k \in 1..(m - 1) :
         SampledPixels(placed[m].rect, cfg.accuracy) \cap BoxPixels(placed[k].box) = {}

(***************************************************************************)
(* C2.  When processItem runs out of candidates it stamps                  *)
(* nothing, sets no timer, lowers the scale by 0.1 and invalidates; every  *)
(* validate() on a positive canvas resets the index to 0 and starts from   *)
(* a white raster and the full spiral, so after it the raster and the      *)
(* placed words hold at most the first word; and the validate() after an   *)
(* exhaustion places words at the lowered scale only.  (A word placed      *)
(* before is placed again only if a free site is found for it.)            *)
(***************************************************************************)
C2_ShrinkAndRestart ==
    [][ /\ ExhaustedStep =>
              /\ adjustedFont10' = adjustedFont10 - 1
              /\ invalid'
              /\ timers' \subseteq timers
              /\ raster' = (IF ValidateStep THEN {} ELSE raster)
              /\ placed' = (IF ValidateStep THEN <<>> ELSE placed)
        /\ (ValidateStep /\ PositiveCanvas) =>
              /\ currentIndex' = 0
              /\ last'.npoints = Len(CanvasPoints(cfg.w, cfg.h, cfg.step))
              /\ Len(placed') <= 1
              /\ raster' = UNION {placed'[k].ink : k \in DOMAIN placed'}
              /\ \A k \in DOMAIN placed' :
                    placed'[k].idx = 0 /\ placed'[k].adj10 = adjustedFont10
        /\ (ValidateStep /\ last.outcome = "exhausted") =>
              \A k \in DOMAIN placed : placed[k].adj10 > adjustedFont10
      ]_vars

\* the pass after an exhaustion has placed again all the words the abandoned pass placed
C2_Witness ==
    /\ prevPlaced >= 1
    /\ Len(placed) >= prevPlaced
    /\ \A k \in DOMAIN placed : placed[k].adj10 < 10 /\ placed[k].adj10 = adjustedFont10

\* C2 as stated: the restarted pass places every word the abandoned pass had
\* placed, so it is not itself abandoned before they are placed again
C2_Original ==
    [][ (ExhaustedStep /\ prevPlaced >= 0 /\ (ValidateStep => last.outcome = "exhausted"))
            => Len(placed') >= prevPlaced ]_vars

RestartBoundOnlyForUnfittingWord ==
    10 - adjustedFont10 >= MaxShrinks => cfg.words = LongWordList

C4_OneWordPerCallback ==
    [][ /\ Len(placed') <= Len(placed) + 1
        /\ (Len(placed') > Len(placed) /\ ~ValidateStep) => TimerStep
        /\ TimerStep => currentIndex' = currentIndex + 1 /\ currentIndex' < Len(dataItems)
        /\ ProcessStep => last'.idx = currentIndex'
        /\ \A k \in DOMAIN placed' : placed'[k].idx = k - 1
        /\ timers' # {} => currentIndex' < Len(dataItems') - 1
      ]_vars

\* a pass that placed three words, one per callback
C4_Witness == LayoutComplete /\ Len(placed) = 3

(***************************************************************************)
(* C5.  At most one process timer is pending, it is the one                *)
(* _processTimeout refers to, and it was set by the current pass.          *)
(***************************************************************************)
C5_OnlyCurrentTimerPending ==
    /\ Cardinality(timers) <= 1
    /\ \A t \in timers : t = processTimeout /\ t.pass = pass

\* validate() disposed a pending timer and the new pass has set its own
C5_Witness == disposed /\ timers # {}

(***************************************************************************)
(* C6.  As stated: at font scale 1 the font size of a placed word is the   *)
(* linear interpolation between minFontSize (lowest value) and             *)
(* maxFontSize (highest value).                                            *)
(***************************************************************************)
C6_Original ==
    \A k \in DOMAIN placed :
        LET v == dataItems[placed[k].idx + 1].value
            lo == Low(dataItems)
            hi == High(dataItems)
        IN  (placed[k].adj10 = 10 /\ hi > lo) =>
                placed[k].fontNum * (hi - lo) =
                    placed[k].fontDen *
                        (cfg.minFontSize * (hi - lo)
                            + (cfg.maxFontSize - cfg.minFontSize) * (v - lo))

(***************************************************************************)
(* C7.  As stated: a placed word whose relative size is not below the      *)
(* rotation threshold has angle 0, and with rotationThreshold = 0 no       *)
(* placed word is rotated.                                                 *)
(***************************************************************************)
C7_Original ==
    \A k \in DOMAIN placed :
        LET d == cfg.maxFontSize - cfg.minFontSize
            rel == placed[k].fontNum - cfg.minFontSize * placed[k].fontDen
        IN  /\ (10 * rel >= cfg.rotationThreshold10 * d * placed[k].fontDen)
                => placed[k].angle = 0
            /\ cfg.rotationThreshold10 = 0 => placed[k].angle = 0

(***************************************************************************)
(* The text pipeline.  A string is a sequence of one-character strings.    *)
(***************************************************************************)
Letters == {"a", "A", "b"}      \* characters matched by the word pattern
Separators == {" "}             \* characters not matched by it
Chars == Letters \cup Separators

\* String.prototype.toLowerCase
LowerChar(ch) == IF ch = "A" THEN "a" ELSE ch
ToLowerCase(word) == [i \in DOMAIN word |-> LowerChar(word[i])]

\* String.prototype.substr(1)
Substr1(word) == IF Len(word) <= 1 THEN <<>> ELSE SubSeq(word, 2, Len(word))

\* input.match(reg) with the global flag: the maximal runs of pattern characters,
\* left to right (<<>> stands for null)
RECURSIVE Match(_, _, _)
Match(input, i, run) ==
    IF i > Len(input)
    THEN IF run = <<>> THEN <<>> ELSE <<run>>
    ELSE IF input[i] \in Letters
         THEN Match(input, i + 1, Append(run, input[i]))
         ELSE (IF run = <<>> THEN <<>> ELSE <<run>>) \o Match(input, i + 1, <<>>)

isCapitalized(word) ==
    LET lword == ToLowerCase(word)
    IN  /\ word[1] # lword[1]
        /\ Substr1(word) = Substr1(lword)
        /\ word # lword

\* the comparison that finds the entry of a word already seen
SameWordExact(a, b) == a = b
SameWord(a, b) == ToLowerCase(a) = ToLowerCase(b)

\* one iteration of the counting loop
CountWord(words, word) ==
    LET hits == {i \in DOMAIN words : SameWord(words[i].word, word)}
    IN  IF hits # {}
        THEN LET i == CHOOSE j \in hits : \A k \in hits : j <= k
             IN  [words EXCEPT ![i] = [word |-> IF ~isCapitalized(word) THEN word ELSE @.word,
                                       value |-> @.value + 1]]
        ELSE Append(words, [word |-> word, value |-> 1])

\* while (word = res.pop()): the matches are taken from the last to the first
RECURSIVE CountWords(_, _)
CountWords(res, words) ==
    IF res = <<>> THEN words
    ELSE CountWords(SubSeq(res, 1, Len(res) - 1), CountWord(words, res[Len(res)]))

\* words.splice(i, 1) with a 0-based index; nothing happens past the end
Splice(words, i) ==
    IF i + 1 > Len(words) THEN words
    ELSE SubSeq(words, 1, i) \o SubSeq(words, i + 2, Len(words))

\* a < b and a > b of JavaScript with a possibly undefined operand
Less(a, b) == a # Undefined /\ b # Undefined /\ a < b
Greater(a, b) == a # Undefined /\ b # Undefined /\ a > b

IndexOf(list, word) == \E k \in DOMAIN list : list[k] = word

FilterActive(mv, mwl, excl) == Greater(mv, 1) \/ Greater(mwl, 1) \/ Len(excl) > 0

\* the body of the filter loop for one index: three independent tests of the
\* entry read at the start, each of which splices at the same index
FilterAt(words, i, mv, mwl, excl) ==
    LET w == words[i + 1]
        s1 == IF Less(w.value, mv) THEN Splice(words, i) ELSE words
        s2 == IF Less(Len(w.word), mwl) THEN Splice(s1, i) ELSE s1
        s3 == IF IndexOf(excl, w.word) THEN Splice(s2, i) ELSE s2
    IN  s3

\* for (let i = words.length - 1; i >= 0; i--)
RECURSIVE FilterLoop(_, _, _, _, _)
FilterLoop(words, i, mv, mwl, excl) ==
    IF i < 0 THEN words
    ELSE FilterLoop(FilterAt(words, i, mv, mwl, excl), i - 1, mv, mwl, excl)

FilterWords(words, mv, mwl, excl) ==
    IF FilterActive(mv, mwl, excl)
    THEN FilterLoop(words, Len(words) - 1, mv, mwl, excl)
    ELSE words

\* words.sort(...): descending by value
KeepOrder(words) == words
SortWords(words) == SortByValue(words)

\* words.slice(0, maxCount) when there are more words than maxCount
TruncateTail(words, mc) ==
    IF Greater(Len(words), mc) THEN SubSeq(words, Len(words) - mc + 1, Len(words)) ELSE words
Truncate(words, mc) ==
    IF Greater(Len(words), mc) THEN SubSeq(words, 1, mc) ELSE words

\* getWords(input): the word lists after each stage and the array returned
GetWordsStages(input, mv, mwl, excl, mc) ==
    LET tokens == Match(input, 1, <<>>)
        counted == CountWords(tokens, <<>>)
        filtered == FilterWords(counted, mv, mwl, excl)
        sorted == SortWords(filtered)
    IN  [ran |-> TRUE, tokens |-> tokens, counted |-> counted, filtered |-> filtered,
         sorted |-> sorted, returned |-> Truncate(sorted, mc)]

GetWords(input, mv, mwl, excl, mc) ==
    IF input = <<>> THEN NoData
    ELSE IF Match(input, 1, <<>>) = <<>> THEN DataOf(<<>>)
    ELSE DataOf(GetWordsStages(input, mv, mwl, excl, mc).returned)

\* updateData(): this.data = this.getWords(this.text), with the properties as
\* they are after the setter stored its value
UpdateData(input, mv, mwl, excl, mc) ==
    /\ data' = GetWords(input, mv, mwl, excl, mc)
    /\ stages' = IF input = <<>> \/ Match(input, 1, <<>>) = <<>>
                 THEN NoStages
                 ELSE GetWordsStages(input, mv, mwl, excl, mc)

(***************************************************************************)
(* The property setters: each stores the value and, when it changed, calls *)
(* updateData().  Building the data items from this.data is done by the    *)
(* Component base class and is not part of this model, so the layout       *)
(* variables are left alone.                                               *)
(***************************************************************************)
MinValues == {Undefined, 2}
MinWordLengths == {1, 2}
ExcludeLists == {<<>>, << <<"a">> >>}
MaxCounts == {Undefined, 1}
DirectRows == { << [word |-> <<"a">>, value |-> 3], [word |-> <<"b">>, value |-> 1] >> }

SetText(value) ==
    /\ value # text
    /\ text' = value
    /\ UpdateData(value, minValue, minWordLength, excludeWords, maxCount)
    /\ UNCHANGED <<minValue, minWordLength, excludeWords, maxCount, layoutVars, timeVars>>

SetMaxCount(value) ==
    /\ value # maxCount
    /\ maxCount' = value
    /\ UpdateData(text, minValue, minWordLength, excludeWords, value)
    /\ UNCHANGED <<text, minValue, minWordLength, excludeWords, layoutVars, timeVars>>

SetMinValue(value) ==
    /\ value # minValue
    /\ minValue' = value
    /\ UpdateData(text, value, minWordLength, excludeWords, maxCount)
    /\ UNCHANGED <<text, minWordLength, excludeWords, maxCount, layoutVars, timeVars>>

SetExcludeWords(value) ==
    /\ value # excludeWords
    /\ excludeWords' = value
    /\ UpdateData(text, minValue, minWordLength, value, maxCount)
    /\ UNCHANGED <<text, minValue, minWordLength, maxCount, layoutVars, timeVars>>

SetMinWordLength(value) ==
    /\ value # minWordLength
    /\ minWordLength' = value
    /\ UpdateData(text, minValue, value, excludeWords, maxCount)
    /\ UNCHANGED <<text, minValue, excludeWords, maxCount, layoutVars, timeVars>>

\* series.data = rows
SetData(rows) ==
    /\ data # DataOf(rows)
    /\ data' = DataOf(rows)
    /\ UNCHANGED <<text, minValue, minWordLength, excludeWords, maxCount, stages,
                   layoutVars, timeVars>>

\* a series that is not laid out (no canvas), with no text and no data yet
InitWords ==
    /\ InitLayout
    /\ cfg = Config(<<0, 0>>, LongWordList, 7, <<0, 0, 90>>, 0, 3, 1)
    /\ InitWordsIdle
    /\ InitTimeIdle

\* the text is typed one character at a time, or cleared
NextWords ==
    \/ \E ch \in Chars : Len(text) < MaxTextLen /\ SetText(Append(text, ch))
    \/ SetText(<<>>)
    \/ \E value \in MaxCounts : SetMaxCount(value)
    \/ \E value \in MinValues : SetMinValue(value)
    \/ \E value \in ExcludeLists : SetExcludeWords(value)
    \/ \E value \in MinWordLengths : SetMinWordLength(value)
    \/ \E rows \in DirectRows : SetData(rows)

SpecWords == InitWords /\ [][NextWords]_vars

(***************************************************************************)
(* Vocabulary of the text pipeline claims.                                 *)
(***************************************************************************)
\* a counted word passes the three filters as the properties stand
PassesFilters(w) ==
    /\ ~Less(w.value, minValue)
    /\ ~Less(Len(w.word), minWordLength)
    /\ ~IndexOf(excludeWords, w.word)

Rows(words) == {words[k] : k \in DOMAIN words}

RECURSIVE SumValues(_)
SumValues(words) ==
    IF words = <<>> THEN 0 ELSE words[1].value + SumValues(Tail(words))

\* the tokens of the last getWords() call that equal a word ignoring case
TokensLike(word) ==
    {k \in DOMAIN stages.tokens : ToLowerCase(stages.tokens[k]) = ToLowerCase(word)}

\* a step of one of the four filter and limit setters
FilterSetterStep ==
    \/ maxCount' # maxCount
    \/ minValue' # minValue
    \/ excludeWords' # excludeWords
    \/ minWordLength' # minWordLength

(***************************************************************************)
(* C8.  When minValue, minWordLength or excludeWords is in effect, the     *)
(* words getWords keeps (before the maxCount truncation) are exactly the   *)
(* counted words that pass all three filters: none that fails a filter is  *)
(* kept and none that passes all three is dropped.                         *)
(***************************************************************************)
C8_Original ==
    (stages.ran /\ FilterActive(minValue, minWordLength, excludeWords))
        => Rows(stages.filtered) = {w \in Rows(stages.counted) : PassesFilters(w)}

(***************************************************************************)
(* C9.  getWords counts the tokens of the text ignoring case: before       *)
(* filtering and truncation there is one entry per token distinct up to    *)
(* case, every token has its entry, the value of an entry is the number of *)
(* tokens equal to its word ignoring case, and the values sum to the       *)
(* number of tokens.                                                       *)
(***************************************************************************)
C9_CountsTokensIgnoringCase ==
    stages.ran =>
        LET counted == stages.counted
        IN  /\ \A i, j \in DOMAIN counted :
                   i # j => ToLowerCase(counted[i].word) # ToLowerCase(counted[j].word)
            /\ \A k \in DOMAIN stages.tokens : \E i \in DOMAIN counted :
                   k \in TokensLike(counted[i].word)
            /\ \A i \in DOMAIN counted :
                   /\ counted[i].value >= 1
                   /\ counted[i].value = Cardinality(TokensLike(counted[i].word))
            /\ SumValues(counted) = Len(stages.tokens)

\* a text with the same word in two spellings and another word was counted
C9_Witness ==
    /\ stages.ran
    /\ Len(stages.counted) = 2
    /\ \E i \in DOMAIN stages.counted : stages.counted[i].value = 2
    /\ \E k, l \in DOMAIN stages.tokens :
           /\ stages.tokens[k] # stages.tokens[l]
           /\ ToLowerCase(stages.tokens[k]) = ToLowerCase(stages.tokens[l])

(***************************************************************************)
(* C10.  On a series with no text whose data was set directly, a call of   *)
(* the maxCount, minValue, excludeWords or minWordLength setter leaves the *)
(* data unchanged.                                                         *)
(***************************************************************************)
C10_Original ==
    [][(text = <<>> /\ data.defined /\ data.rows \in DirectRows /\ FilterSetterStep)
          => data' = data]_vars

(***************************************************************************)
(* C11.  When maxCount is set and the text yields more words than          *)
(* maxCount, getWords returns exactly maxCount of them and every word it   *)
(* discards has a value less than or equal to that of every word it        *)
(* returns.                                                                *)
(***************************************************************************)
C11_KeepsLargest ==
    (stages.ran /\ maxCount # Undefined /\ Len(stages.sorted) > maxCount) =>
        /\ Len(stages.returned) = maxCount
        /\ Rows(stages.returned) \subseteq Rows(stages.filtered)
        /\ \A d \in Rows(stages.filtered) \ Rows(stages.returned) :
              \A r \in Rows(stages.returned) : d.value <= r.value

\* a word of smaller value that came first in the counted list was discarded
C11_Witness ==
    /\ stages.ran /\ maxCount # Undefined /\ Len(stages.sorted) > maxCount
    /\ data = DataOf(stages.returned)
    /\ \E d \in Rows(stages.filtered) \ Rows(stages.returned) :
          /\ stages.filtered[1] = d
          /\ \E r \in Rows(stages.returned) : d.value < r.value

(***************************************************************************)
(* The series with both its text and its layout: the text is set while     *)
(* the layout of the data items runs.                                      *)
(***************************************************************************)
RankTexts ==
    { <<"b", " ", "b", " ", "a">>,
      <<"A", " ", "a", " ", "b">>,
      <<"a", "b">> }

NextRank ==
    \/ Validate
    \/ \E t \in timers : TimerFire(t)
    \/ Invalidate
    \/ \E value \in RankTexts : SetText(value)

SpecRank == Init /\ [][NextRank]_vars

\* a list of words or data items is in non-increasing order of value
NonIncreasing(items) ==
    \A i, j \in DOMAIN items : i < j => items[i].value >= items[j].value

(***************************************************************************)
(* C12.  Words are ranked descending by frequency: the list getWords       *)
(* returns is in non-increasing order of value; once validate() has run    *)
(* the data items are in non-increasing order of value; and the words      *)
(* placed in a pass were placed in non-increasing order of value.          *)
(***************************************************************************)
C12_RankedByValue ==
    /\ stages.ran => NonIncreasing(stages.sorted) /\ NonIncreasing(stages.returned)
    /\ pass >= 1 => NonIncreasing(dataItems)
    /\ \A k, m \in DOMAIN placed :
          k < m => dataItems[placed[k].idx + 1].value >= dataItems[placed[m].idx + 1].value

\* getWords reordered the counted words, validate() reordered the data items,
\* and a pass placed all of them
C12_Witness ==
    /\ stages.ran /\ ~NonIncreasing(stages.counted) /\ data = DataOf(stages.returned)
    /\ ~NonIncreasing(cfg.words)
    /\ LayoutComplete /\ Len(placed) = 3

(***************************************************************************)
(* Vocabulary of the search claims: the raster, the points and the label   *)
(* measures a processItem step worked with.                                *)
(***************************************************************************)
RasterSearched == IF ValidateStep THEN {} ELSE raster
PointsSearched == IF ValidateStep THEN CanvasPoints(cfg.w, cfg.h, cfg.step) ELSE points
MeasureSearched ==
    Measure(dataItems'[last'.idx + 1].len, last'.fontNum, last'.fontDen, last'.angle)
RejectedSite(site) ==
    Intersects(RasterSearched, cfg.w, cfg.h, Rect1(cfg, MeasureSearched, site), cfg.accuracy)

(***************************************************************************)
(* C13.  The search of a word starts at an offset s with                   *)
(* 0 <= s <= round(randomness x number of points), s = 0 when randomness   *)
(* is 0, and tests the candidates of index s, s + 5, s + 10, ... of the    *)
(* list of points: every candidate tested before the one taken was         *)
(* rejected, and the word is declared unplaceable only when all tested     *)
(* candidates were rejected and the next index is past the end of the      *)
(* list.  (The points in between are not tested.)                          *)
(***************************************************************************)
C13_StridedWalk ==
    [][ProcessStep =>
          /\ last'.start >= 0
          /\ last'.start <= (last'.npoints * cfg.randomness100 + 50) \div 100
          /\ cfg.randomness100 = 0 => last'.start = 0
          /\ last'.npoints = Len(PointsSearched)
          /\ \A k \in DOMAIN last'.tested :
                /\ last'.tested[k].p = last'.start + 5 * (k - 1)
                /\ (k < Len(last'.tested) \/ last'.outcome = "exhausted")
                      => RejectedSite(last'.tested[k].site)
          /\ last'.outcome = "placed" =>
                /\ last'.tested # <<>>
                /\ ~RejectedSite(last'.tested[Len(last'.tested)].site)
                /\ placed'[Len(placed')].site = last'.tested[Len(last'.tested)].site
          /\ last'.outcome = "exhausted" =>
                last'.start + 5 * Len(last'.tested) > Len(points') - 1
      ]_vars

\* a word was declared unplaceable after a walk from a start offset above 0
\* that tested several candidates
C13_Witness ==
    /\ last.outcome = "exhausted"
    /\ last.start > 0
    /\ Len(last.tested) >= 2

\* C13 as stated: a word is declared unplaceable only after every point at or
\* after the start offset was tested
C13_Original ==
    [][ExhaustedStep =>
          \A p \in last'.start..(last'.npoints - 1) :
              \E k \in DOMAIN last'.tested : last'.tested[k].site = PointsSearched[p + 1]
      ]_vars

(***************************************************************************)
(* Time.ts (src/.internal/core/utils/Time.ts).  A Date object is its time  *)
(* value, the milliseconds since 1970-01-01T00:00:00.000 UTC, written here *)
(* as the pair [day, ms] that stands for day * 86400000 + ms with          *)
(* 0 <= ms < 86400000; a duration in milliseconds is written the same way. *)
(* Months are numbered from 0 and week days from 0 = Sunday, as Date does. *)
(***************************************************************************)
Units == {"millisecond", "second", "minute", "hour", "day", "week", "month", "year"}

\* the number day * 86400000 + ms as a pair
Millis(day, ms) == [day |-> day + (ms \div 86400000), ms |-> ms % 86400000]

\* order and difference of two numbers written as pairs
Before(a, b) == a.day < b.day \/ (a.day = b.day /\ a.ms < b.ms)
Minus(a, b) == Millis(a.day - b.day, a.ms - b.ms)
Plus(a, b) == Millis(a.day + b.day, a.ms + b.ms)

timeUnitDurations(unit) ==
    CASE unit = "millisecond" -> Millis(0, 1)
      [] unit = "second" -> Millis(0, 1000)
      [] unit = "minute" -> Millis(0, 60000)
      [] unit = "hour" -> Millis(0, 3600000)
      [] unit = "day" -> Millis(1, 0)
      [] unit = "week" -> Millis(7, 0)
      [] unit = "month" -> Millis(30, 0)
      [] unit = "year" -> Millis(365, 0)

\* "none" stands for undefined
getNextUnit(unit) ==
    CASE unit = "year" -> "none"
      [] unit = "month" -> "year"
      [] unit = "week" -> "month"
      [] unit = "day" -> "month"
      [] unit = "hour" -> "day"
      [] unit = "minute" -> "hour"
      [] unit = "second" -> "minute"
      [] unit = "millisecond" -> "second"

\* $type.hasValue(count), $type.isNumber(count): an argument left out is Undefined
NumberOr(value, default) == IF value = Undefined THEN default ELSE value

getDuration(unit, count) ==
    LET d == timeUnitDurations(unit)
    IN  Millis(d.day * NumberOr(count, 1), d.ms * NumberOr(count, 1))

\* the day number of day d of month m (from 0) of year y in the proleptic
\* Gregorian calendar; months and days outside their range carry over
DaysFromCivil(y, m, d) ==
    LET yy == y + (m \div 12)
        mm == (m % 12) + 1
        yc == IF mm <= 2 THEN yy - 1 ELSE yy
        era == yc \div 400
        yoe == yc - era * 400
        mp == IF mm > 2 THEN mm - 3 ELSE mm + 9
        doy == (153 * mp + 2) \div 5 + d - 1
        doe == yoe * 365 + yoe \div 4 - yoe \div 100 + doy
    IN  era * 146097 + doe - 719468

\* year, month (from 0) and day of the month of a day number
Civil(dn) ==
    LET z == dn + 719468
        era == z \div 146097
        doe == z - era * 146097
        yoe == (doe - doe \div 1460 + doe \div 36524 - doe \div 146096) \div 365
        doy == doe - (365 * yoe + yoe \div 4 - yoe \div 100)
        mp == (5 * doy + 2) \div 153
        d == doy - (153 * mp + 2) \div 5 + 1
        m == IF mp < 10 THEN mp + 3 ELSE mp - 9
        y == yoe + era * 400 + (IF m <= 2 THEN 1 ELSE 0)
    IN  [year |-> y, month |-> m - 1, date |-> d]

getUTCFullYear(t) == Civil(t.day).year
getUTCMonth(t) == Civil(t.day).month
getUTCDate(t) == Civil(t.day).date
getUTCDay(t) == (t.day + 4) % 7
getUTCHours(t) == t.ms \div 3600000
getUTCMinutes(t) == (t.ms % 3600000) \div 60000
getUTCSeconds(t) == (t.ms % 60000) \div 1000
getUTCMilliseconds(t) == t.ms % 1000

\* the local time getters, z minutes ahead of UTC
LocalTime(t, z) == Millis(t.day, t.ms + z * 60000)
getFullYear(t, z) == getUTCFullYear(LocalTime(t, z))
getMonth(t, z) == getUTCMonth(LocalTime(t, z))
getDate(t, z) == getUTCDate(LocalTime(t, z))
getHours(t, z) == getUTCHours(LocalTime(t, z))
getMinutes(t, z) == getUTCMinutes(LocalTime(t, z))
getSeconds(t, z) == getUTCSeconds(LocalTime(t, z))

\* the setters: the fields not given keep their value, values outside the
\* range of a field carry over into the next field
MakeTime(h, mi, sec, ms) == h * 3600000 + mi * 60000 + sec * 1000 + ms
setUTCFullYear(t, y, m, d) == Millis(DaysFromCivil(y, m, d), t.ms)
setUTCMonth(t, m, d) == Millis(DaysFromCivil(getUTCFullYear(t), m, d), t.ms)
setUTCDate(t, d) == Millis(DaysFromCivil(getUTCFullYear(t), getUTCMonth(t), d), t.ms)
setUTCHours(t, h, mi, sec, ms) == Millis(t.day, MakeTime(h, mi, sec, ms))
setUTCMinutes(t, mi, sec, ms) == Millis(t.day, MakeTime(getUTCHours(t), mi, sec, ms))
setUTCSeconds(t, sec, ms) ==
    Millis(t.day, MakeTime(getUTCHours(t), getUTCMinutes(t), sec, ms))
setUTCMilliseconds(t, ms) == Millis(t.day, t.ms - getUTCMilliseconds(t) + ms)

\* Math.floor(value / count) * count
CeilTo(value, count) == ((value + count - 1) \div count) * count
FloorTo(value, count) == (value \div count) * count

RECURSIVE checkChange(_, _, _, _)
checkChange(one, two, unit, z) ==
    LET differs ==
            CASE unit = "year" -> getFullYear(one, z) # getFullYear(two, z)
              [] unit = "month" -> getMonth(one, z) # getMonth(two, z)
              [] unit = "day" -> getDate(one, z) # getDate(two, z)
              [] unit = "hour" -> getHours(one, z) # getHours(two, z)
              [] unit = "minute" -> getMinutes(one, z) # getMinutes(two, z)
              [] unit = "second" -> getSeconds(one, z) # getSeconds(two, z)
              [] unit = "millisecond" -> one # two
              [] OTHER -> FALSE
    IN  IF differs THEN TRUE
        ELSE IF getNextUnit(unit) # "none"
             THEN checkChange(one, two, getNextUnit(unit), z)
             ELSE FALSE

add(date, unit, count) ==
    CASE unit = "day" -> setUTCDate(date, getUTCDate(date) + count)
      [] unit = "second" ->
            setUTCSeconds(date, getUTCSeconds(date) + count, getUTCMilliseconds(date))
      [] unit = "millisecond" -> setUTCMilliseconds(date, getUTCMilliseconds(date) + count)
      [] unit = "hour" ->
            setUTCHours(date, getUTCHours(date) + count, getUTCMinutes(date),
                        getUTCSeconds(date), getUTCMilliseconds(date))
      [] unit = "minute" ->
            setUTCMinutes(date, getUTCMinutes(date) + count, getUTCSeconds(date),
                          getUTCMilliseconds(date))
      [] unit = "year" ->
            setUTCFullYear(date, getUTCFullYear(date) + count, getUTCMonth(date),
                           getUTCDate(date))
      [] unit = "month" -> setUTCMonth(date, getUTCMonth(date) + count, getUTCDate(date))
      [] unit = "week" -> setUTCDate(date, getUTCDate(date) + count * 7)

\* the day of the month the week case of round() sets
WeekStartDateNoWrap(wday, weekDay, firstDateOfWeek) == wday - weekDay + firstDateOfWeek
WeekStartDate(wday, weekDay, firstDateOfWeek) ==
    IF weekDay >= firstDateOfWeek
    THEN wday - weekDay + firstDateOfWeek
    ELSE wday - (7 + weekDay) + firstDateOfWeek

round(date, unit, cnt, first) ==
    LET count == NumberOr(cnt, 1)
        Floored(value) == IF count > 1 THEN FloorTo(value, count) ELSE value
    IN  CASE unit = "day" ->
                setUTCHours(setUTCDate(date, Floored(getUTCDate(date))), 0, 0, 0, 0)
          [] unit = "second" -> setUTCSeconds(date, Floored(getUTCSeconds(date)), 0)
          [] unit = "millisecond" ->
                IF count = 1 THEN date
                ELSE setUTCMilliseconds(date, FloorTo(getUTCMilliseconds(date), count))
          [] unit = "hour" -> setUTCHours(date, Floored(getUTCHours(date)), 0, 0, 0)
          [] unit = "minute" -> setUTCMinutes(date, Floored(getUTCMinutes(date)), 0, 0)
          [] unit = "month" ->
                setUTCHours(setUTCMonth(date, Floored(getUTCMonth(date)), 1), 0, 0, 0, 0)
          [] unit = "year" ->
                setUTCHours(setUTCFullYear(date, Floored(getUTCFullYear(date)), 0, 1),
                            0, 0, 0, 0)
          [] unit = "week" ->
                setUTCHours(setUTCDate(date, WeekStartDate(getUTCDate(date), getUTCDay(date),
                                                           NumberOr(first, 1))),
                            0, 0, 0, 0)

(***************************************************************************)
(* The functions of Time.ts applied to dates drawn from a range of days    *)
(* that holds the end of a year and the end of a February of a leap year.  *)
(***************************************************************************)
BaseDay == DaysFromCivil(2019, 11, 20)
SampleTimes == {0, 1, MakeTime(12, 34, 56, 789), MakeTime(23, 59, 59, 999)}
SampleDates == {Millis(BaseDay + d, ms) : d \in 0..MaxDays, ms \in SampleTimes}
SampleGaps ==
    {Millis(0, 0), Millis(0, 1), Millis(0, 60000), Millis(0, 3600000), Millis(1, 0),
     Millis(7, 0), Millis(31, 0)}
Offsets == {0, 330}
Counts == {Undefined, 1, 2, 7, 15}
FirstDays == {Undefined} \cup (0..6)
RoundInputs ==
    {<<unit, count, Undefined>> : unit \in Units \ {"week"}, count \in Counts}
    \cup {<<"week", 1, first>> : first \in FirstDays}

TimeCall(fn, unit, count, first, result, changed) ==
    [fn |-> fn, unit |-> unit, count |-> count, firstDateOfWeek |-> first,
     input |-> dateOne, result |-> result, changed |-> changed]

\* round(dateOne, unit, count, firstDateOfWeek): dateOne is changed in place
Round(unit, count, first) ==
    /\ timeCall.fn = "none"
    /\ dateOne' = round(dateOne, unit, count, first)
    /\ timeCall' = TimeCall("round", unit, count, first, dateOne', FALSE)
    /\ UNCHANGED <<dateTwo, tz, layoutVars, wordVars>>

\* checkChange(dateOne, dateTwo, unit)
CheckChange(unit) ==
    /\ timeCall.fn = "none"
    /\ timeCall' = TimeCall("checkChange", unit, Undefined, Undefined, dateOne,
                            checkChange(dateOne, dateTwo, unit, tz))
    /\ UNCHANGED <<dateOne, dateTwo, tz, layoutVars, wordVars>>

\* add(dateOne, unit, 1): dateOne is changed in place
Add(unit) ==
    /\ timeCall.fn = "none"
    /\ dateOne' = add(dateOne, unit, 1)
    /\ timeCall' = TimeCall("add", unit, 1, Undefined, dateOne', FALSE)
    /\ UNCHANGED <<dateTwo, tz, layoutVars, wordVars>>

InitTime ==
    /\ InitLayout
    /\ cfg = Config(<<0, 0>>, LongWordList, 7, <<0, 0, 90>>, 0, 3, 1)
    /\ InitWordsIdle
    /\ dateOne \in SampleDates
    /\ dateTwo \in {Plus(dateOne, gap) : gap \in SampleGaps}
    /\ tz \in Offsets
    /\ timeCall = NoTimeCall

NextTime ==
    \/ \E in \in RoundInputs : Round(in[1], in[2], in[3])
    \/ \E unit \in Units : CheckChange(unit)
    \/ \E unit \in Units : Add(unit)

SpecTime == InitTime /\ [][NextTime]_vars

(***************************************************************************)
(* Vocabulary of the Time.ts claims.                                       *)
(***************************************************************************)
\* the units from the smallest to the largest
UnitRank(unit) ==
    CASE unit = "millisecond" -> 1
      [] unit = "second" -> 2
      [] unit = "minute" -> 3
      [] unit = "hour" -> 4
      [] unit = "day" -> 5
      [] unit = "week" -> 6
      [] unit = "month" -> 7
      [] unit = "year" -> 8

\* the component of a unit in the local time of a date; the week component
\* is the number of the week, weeks starting on Monday
Component(unit, t, z) ==
    CASE unit = "millisecond" -> getUTCMilliseconds(LocalTime(t, z))
      [] unit = "second" -> getSeconds(t, z)
      [] unit = "minute" -> getMinutes(t, z)
      [] unit = "hour" -> getHours(t, z)
      [] unit = "day" -> getDate(t, z)
      [] unit = "week" -> (LocalTime(t, z).day + 3) \div 7
      [] unit = "month" -> getMonth(t, z)
      [] unit = "year" -> getFullYear(t, z)

\* the two dates differ in the component of the unit or of a larger unit
DiffersFrom(unit) ==
    \E u \in Units :
        /\ UnitRank(u) >= UnitRank(unit)
        /\ Component(u, dateOne, tz) # Component(u, dateTwo, tz)

(***************************************************************************)
(* C14.  As stated: checkChange(dateOne, dateTwo, unit) returns true       *)
(* exactly when the two dates differ in the component of the unit or in    *)
(* the component of a larger unit, for every unit including week.          *)
(***************************************************************************)
C14_Original ==
    timeCall.fn = "checkChange" => (timeCall.changed <=> DiffersFrom(timeCall.unit))

\* the same for the units other than week
C14_HoldsButForWeek ==
    (timeCall.fn = "checkChange" /\ timeCall.unit # "week")
        => (timeCall.changed <=> DiffersFrom(timeCall.unit))

(***************************************************************************)
(* C15.  round(date, unit, count) with the unit millisecond, second,       *)
(* minute, hour or day and a count >= 1 (1 when left out) rounds down: the *)
(* result is not later than the input, it is less than                     *)
(* getDuration(unit, count) before it, every field smaller than the unit   *)
(* is zero, and the result is the date object passed in.                   *)
(***************************************************************************)
C15_RoundsDown ==
    (timeCall.fn = "round" /\ UnitRank(timeCall.unit) <= UnitRank("day")) =>
        /\ ~Before(timeCall.input, timeCall.result)
        /\ Before(Minus(timeCall.input, timeCall.result),
                  getDuration(timeCall.unit, timeCall.count))
        /\ UnitRank(timeCall.unit) > UnitRank("millisecond")
              => getUTCMilliseconds(timeCall.result) = 0
        /\ UnitRank(timeCall.unit) > UnitRank("second")
              => getUTCSeconds(timeCall.result) = 0
        /\ UnitRank(timeCall.unit) > UnitRank("minute")
              => getUTCMinutes(timeCall.result) = 0
        /\ UnitRank(timeCall.unit) > UnitRank("hour")
              => getUTCHours(timeCall.result) = 0
        /\ dateOne = timeCall.result

\* a date early in a month was rounded to 7 days and fell into the month before
C15_Witness ==
    /\ timeCall.fn = "round" /\ timeCall.unit = "day" /\ timeCall.count = 7
    /\ getUTCMonth(timeCall.result) # getUTCMonth(timeCall.input)
    /\ timeCall.input.ms > 0

(***************************************************************************)
(* C16.  round(date, "week", 1, firstDateOfWeek) with firstDateOfWeek in   *)
(* 0..6 (1 when left out) returns the start of the week of the input: the  *)
(* result is on the UTC week day firstDateOfWeek at 00:00:00.000 UTC, it   *)
(* is not after the input and its day is at most 6 days before the         *)
(* input's.                                                                *)
(***************************************************************************)
C16_StartOfWeek ==
    (timeCall.fn = "round" /\ timeCall.unit = "week") =>
        /\ getUTCDay(timeCall.result) = NumberOr(timeCall.firstDateOfWeek, 1)
        /\ timeCall.result.ms = 0
        /\ ~Before(timeCall.input, timeCall.result)
        /\ timeCall.input.day - timeCall.result.day <= 6
        /\ dateOne = timeCall.result

\* the week began in the month before, on a week day after the input's
C16_Witness ==
    /\ timeCall.fn = "round" /\ timeCall.unit = "week"
    /\ timeCall.firstDateOfWeek # Undefined
    /\ getUTCDay(timeCall.input) < timeCall.firstDateOfWeek
    /\ getUTCMonth(timeCall.result) # getUTCMonth(timeCall.input)
    /\ timeCall.input.day - timeCall.result.day = 6

====
